---- MODULE Spec2Model ----
(***************************************************************************)
(* A model of src/lib.rs: Vector<T> over RawVec<T>, with the Drain and     *)
(* IntoIter iterators built on RawValIter<T>.                              *)
(*                                                                         *)
(* Elements are identified by the order of their construction: the k-th    *)
(* element ever constructed is the number k, so two different elements     *)
(* never compare equal and a destructor count can be kept per element.     *)
(* A value handed back to the caller (Some(x) from pop, remove, next,      *)
(* next_back) is owned by the caller, who discards it when the call        *)
(* statement ends: its destructor runs then, once.                          *)
(*                                                                         *)
(* Memory is the block RawVec owns: mem[i] is the content of slot i, for   *)
(* i in 0..capacity-1: the element the slot holds, or 0 for a slot that is *)
(* uninitialized (never written, or its value was moved out by ptr::read   *)
(* or ptr::copy).  Reading an uninitialized slot is undefined behaviour:   *)
(* the model records that it happened in ub, after which nothing is        *)
(* claimed about the run.                                                  *)
(***************************************************************************)
EXTENDS Integers, Sequences, FiniteSets, TLC

\* Number of elements constructed over a run.
MaxElems == 5

\* size_of::<usize>() of the Vector<usize> of the test.
ElemSize == 8

\* The null address alloc/realloc return on failure.
Null == 0

\* isize::MAX, of a 32-bit target (the largest integer the checker holds).
ISIZE_MAX == 2147483647

\* NonNull::dangling(): the alignment of T as an address.
Dangling == ElemSize

\* The addresses the allocator hands out (two blocks, so realloc can move).
HeapAddrs == {16 * ElemSize, 48 * ElemSize}

VARIABLES
    ptr,        \* buf.ptr
    capacity,   \* buf.capacity
    len,        \* Vector.len
    mem,        \* the block's slots: [0..capacity-1 -> bits]
    start,      \* RawValIter.start of the live iterator (an address)
    end,        \* RawValIter.end of the live iterator (an address)
    phase,      \* "vec" | "drain" | "iter" | "done" | "abort"
    heap,       \* base addresses of the blocks currently allocated
    deallocs,   \* number of dealloc calls made
    grown,      \* number of grow calls that returned
    nextId,     \* the next element to be constructed
    drops,      \* drops[e]: how many times e's destructor ran
    ub,         \* a slot was read that must not be (uninitialized, outside the
                \* block, or outside [0, len) of the container), or a bad free made
    last        \* the last call: its name, index argument, value, outcome

vars == <<ptr, capacity, len, mem, start, end, phase, heap, deallocs, grown,
          nextId, drops, ub, last>>

Ids == 1..MaxElems

\* The observable sequence: what Deref's slice of len elements shows.
Elems == [i \in 1..len |-> mem[i - 1]]

Call(op, idx, val, out) ==
    [op |-> op, idx |-> idx, val |-> val, out |-> out, prevOp |-> last.op]

----------------------------------------------------------------------------
\* std::ptr primitives over the block.

\* ptr::write(p.add(i), e): moves e into slot i, dropping nothing.
write(m, i, e) == [m EXCEPT ![i] = e]

\* copy done slot by slot in ascending order, which is not overlap-safe: with
\* dst > src a slot is overwritten before it was copied.
copy_forward(m, src, dst, n) ==
    [j \in DOMAIN m |->
        IF j >= dst /\ j < dst + n
        THEN IF dst > src THEN m[src + ((j - dst) % (dst - src))]
             ELSE m[j - dst + src]
        ELSE IF j >= src /\ j < src + n THEN 0
        ELSE m[j]]

\* ptr::copy(p.add(src), p.add(dst), n): memmove, overlap-safe.  The n values
\* move: they are at dst.. afterwards, and what is left at src.. is moved-from.
copy(m, src, dst, n) ==
    [j \in DOMAIN m |->
        IF j >= dst /\ j < dst + n THEN m[j - dst + src]
        ELSE IF j >= src /\ j < src + n THEN 0
        ELSE m[j]]

\* ptr::read(p.add(i)): the value of slot i.
read(m, i) == IF i \in DOMAIN m THEN m[i] ELSE 0

\* A read is defined only for a slot of the block that holds a value.
read_ok(m, i) == i \in DOMAIN m /\ m[i] # 0

\* taken for a read that leaves the slot holding the value (a copy, not a move).
taken_not(m, i) == m

\* The block after the value of slot i was moved out by ptr::read.
taken(m, i) == IF i \in DOMAIN m THEN [m EXCEPT ![i] = 0] ELSE m

\* A container operation may read slot i: it is one of the n elements, and holds one.
vec_read_ok(m, n, i) == i < n /\ read_ok(m, i)

\* ptr::copy reads the n slots from src: all of them are elements that may be read.
copy_ok(m, len_, src, n) == \A j \in src..(src + n - 1) : vec_read_ok(m, len_, j)

\* The slots that hold a value.
Live == {i \in DOMAIN mem : mem[i] # 0}

\* The destructor of value e runs (bits that are no element count nowhere).
drop_value(d, e) == IF e \in DOMAIN d THEN [d EXCEPT ![e] = @ + 1] ELSE d

----------------------------------------------------------------------------
\* RawVec

\* new_cap with the zero case forgotten: doubling 0 allocates nothing.
new_cap_nozero(cap) == 2 * cap

\* new_cap growing by one slot instead of doubling.
new_cap_linear(cap) == IF cap = 0 THEN 1 ELSE cap + 1

\* grow, lines 157-168: the new capacity.
new_cap(cap) == IF cap = 0 THEN 1 ELSE 2 * cap

\* alloc's or realloc's result: a fresh block, the same block (realloc only), or null.
alloc_results(p, cap, h) ==
    (HeapAddrs \ h) \cup (IF cap = 0 THEN {} ELSE {p}) \cup {Null}

\* grow storing the new pointer and leaving the capacity as it was.
grow_torn(p, cap, h) ==
    {IF a = Null
     THEN [out |-> "abort", ptr |-> p, capacity |-> cap, heap |-> h]
     ELSE [out |-> "grown", ptr |-> a, capacity |-> cap,
           heap |-> (IF cap = 0 THEN h ELSE h \ {p}) \cup {a}]
     : a \in alloc_results(p, cap, h)}

\* grow, lines 155-190: every outcome it can have from pointer p, capacity cap
\* and heap h.  The size assertion of lines 171-174, new_cap * size_of::<T>()
\* <= isize::MAX, is written as a comparison of counts so that no product
\* leaves the integer range.
grow(p, cap, h) ==
    IF new_cap(cap) > ISIZE_MAX \div ElemSize
    THEN {[out |-> "panic", ptr |-> p, capacity |-> cap, heap |-> h]}
    ELSE {IF a = Null
          THEN [out |-> "abort", ptr |-> p, capacity |-> cap, heap |-> h]
          ELSE [out |-> "grown", ptr |-> a, capacity |-> new_cap(cap),
                heap |-> (IF cap = 0 THEN h ELSE h \ {p}) \cup {a}]
          : a \in alloc_results(p, cap, h)}

\* The block after a successful grow: old bytes kept, new slots uninitialized.
grown_mem(m, cap) == [i \in 0..(cap - 1) |-> IF i \in DOMAIN m THEN m[i] ELSE 0]

\* What push and insert do about the storage: grow only when full.
reserve(p, cap, h, n) ==
    IF n = cap THEN grow(p, cap, h)
    ELSE {[out |-> "ok", ptr |-> p, capacity |-> cap, heap |-> h]}

\* RawVec::drop, lines 197-204: the heap, the dealloc count and whether the free was bad.
RawVec_drop(p, cap, h, n) ==
    IF cap # 0
    THEN [heap |-> h \ {p}, deallocs |-> n + 1, bad |-> p \notin h]
    ELSE [heap |-> h, deallocs |-> n, bad |-> FALSE]

----------------------------------------------------------------------------
\* RawValIter

\* RawValIter_new with end one element short of the slice's end.
RawValIter_new_short(p, n) ==
    [start |-> p, end |-> IF n = 0 THEN p ELSE p + (n - 1) * ElemSize]

\* RawValIter::new(slice), lines 280-292, over the slice of n elements at p.
RawValIter_new(p, n) ==
    [start |-> p, end |-> IF n = 0 THEN p ELSE p + n * ElemSize]

\* RawValIter_next stepping start even when it has nothing to yield.
RawValIter_next_overrun(s, e) ==
    IF s = e THEN [start |-> s + ElemSize, end |-> e, some |-> FALSE, at |-> s]
    ELSE [start |-> s + ElemSize, end |-> e, some |-> TRUE, at |-> s]

\* RawValIter::next, lines 315-330: the new bounds and the address read, if any.
RawValIter_next(s, e) ==
    IF s = e THEN [start |-> s, end |-> e, some |-> FALSE, at |-> s]
    ELSE IF ElemSize = 0
         THEN [start |-> s + 1, end |-> e, some |-> TRUE, at |-> Dangling]
         ELSE [start |-> s + ElemSize, end |-> e, some |-> TRUE, at |-> s]

\* RawValIter_next_back reading at end before stepping it back.
RawValIter_next_back_at_end(s, e) ==
    IF s = e THEN [start |-> s, end |-> e, some |-> FALSE, at |-> e]
    ELSE [start |-> s, end |-> e - ElemSize, some |-> TRUE, at |-> e]

\* RawValIter::next_back, lines 296-310.
RawValIter_next_back(s, e) ==
    IF s = e THEN [start |-> s, end |-> e, some |-> FALSE, at |-> e]
    ELSE IF ElemSize = 0
         THEN [start |-> s, end |-> e - 1, some |-> TRUE, at |-> Dangling]
         ELSE [start |-> s, end |-> e - ElemSize, some |-> TRUE, at |-> e - ElemSize]

\* A size_hint that reports the distance in bytes.
RawValIter_size_hint_bytes(s, e) ==
    [lower |-> e - s, upper |-> e - s]

\* RawValIter::size_hint, lines 332-337: (len, Some(len)).
RawValIter_size_hint(s, e) ==
    LET len_ == (e - s) \div (IF ElemSize = 0 THEN 1 ELSE ElemSize)
    IN  [lower |-> len_, upper |-> len_]

\* The slot of the block at p that address a points to.
slot_of(p, a) == (a - p) \div ElemSize

\* A destructor whose loop body never runs: nothing is yielded, nothing dropped.
drop_rest_none(p, m, s, e, d, u) ==
    [start |-> s, end |-> e, mem |-> m, drops |-> d, ub |-> u, steps |-> 0]

\* `for _ in &mut *self {}` of Drain::drop and IntoIter::drop: next() until
\* None, each value dropped as it is yielded; steps counts the values yielded.
RECURSIVE drop_rest(_, _, _, _, _, _)
drop_rest(p, m, s, e, d, u) ==
    LET r == RawValIter_next(s, e)
        i == slot_of(p, r.at)
    IN  IF ~r.some
        THEN [start |-> r.start, end |-> r.end, mem |-> m, drops |-> d, ub |-> u,
              steps |-> 0]
        ELSE LET t == drop_rest(p, taken(m, i), r.start, r.end,
                                drop_value(d, read(m, i)), u \/ ~read_ok(m, i))
             IN  [t EXCEPT !.steps = @ + 1]

----------------------------------------------------------------------------
Init ==
    /\ ptr = Dangling
    /\ capacity = 0
    /\ len = 0
    /\ mem = [i \in {} |-> 0]
    /\ start = Dangling
    /\ end = Dangling
    /\ phase = "vec"
    /\ heap = {}
    /\ deallocs = 0
    /\ grown = 0
    /\ nextId = 1
    /\ drops = [e \in Ids |-> 0]
    /\ ub = FALSE
    /\ last = [op |-> "new", idx |-> 0, val |-> 0, out |-> "unit", prevOp |-> "new"]

\* A call that stops the process (handle_alloc_error): nothing runs after it.
Abort(op, idx, val) ==
    /\ phase' = "abort"
    /\ last' = Call(op, idx, val, "abort")
    /\ UNCHANGED <<ptr, capacity, len, mem, start, end, heap, deallocs, grown,
                   drops, ub>>

\* A call that panics: its argument elem, owned by the call, is dropped by the unwinding.
Panic(op, idx, val) ==
    /\ last' = Call(op, idx, val, "panic")
    /\ drops' = drop_value(drops, val)
    /\ UNCHANGED <<ptr, capacity, len, mem, start, end, phase, heap, deallocs,
                   grown, ub>>

\* Vector::push, lines 19-30, of a newly constructed element.
push ==
    /\ phase = "vec"
    /\ nextId <= MaxElems
    /\ nextId' = nextId + 1
    /\ \E g \in reserve(ptr, capacity, heap, len) :
        CASE g.out = "abort" -> Abort("push", len, nextId)
          [] g.out = "panic" -> Panic("push", len, nextId)
          [] OTHER ->
               /\ ptr' = g.ptr
               /\ capacity' = g.capacity
               /\ heap' = g.heap
               /\ grown' = IF g.out = "grown" THEN grown + 1 ELSE grown
               /\ mem' = write(grown_mem(mem, g.capacity), len, nextId)
               /\ len' = len + 1
               /\ last' = Call("push", len, nextId, "unit")
               /\ UNCHANGED <<start, end, phase, deallocs, drops, ub>>

\* pop_slot with the decrement forgotten: reads the slot past the last element.
pop_slot_stale(n) == n

\* pop_slot taking from the front.
pop_slot_first(n) == 0

\* The slot pop reads, after `self.len -= 1`.
pop_slot(n) == n - 1

\* Vector::pop, lines 32-39.
pop ==
    /\ phase = "vec"
    /\ IF len = 0
       THEN /\ last' = Call("pop", 0, 0, "None")
            /\ UNCHANGED <<len, mem, drops, ub>>
       ELSE LET i == pop_slot(len) IN
            /\ len' = len - 1
            /\ last' = Call("pop", i, read(mem, i), "Some")
            /\ mem' = taken(mem, i)
            /\ ub' = (ub \/ ~vec_read_ok(mem, len, i))
            /\ drops' = drop_value(drops, read(mem, i))
    /\ UNCHANGED <<ptr, capacity, start, end, phase, heap, deallocs, grown, nextId>>

\* insert_mem with the shift forgotten: elem overwrites the slot.
insert_mem_noshift(m, n, index, elem) == write(m, index, elem)

\* The block after insert's copy and write, lines 49-57.
insert_mem(m, n, index, elem) == write(copy(m, index, index + 1, n - index), index, elem)

\* insert_index_ok letting the index be one past what can be inserted at.
insert_index_lax(index, n) == index <= n + 1

\* insert's assertion, line 44.
insert_index_ok(index, n) == index <= n

\* Vector::insert, lines 41-60, of a newly constructed element.
insert(index) ==
    /\ phase = "vec"
    /\ nextId <= MaxElems
    /\ nextId' = nextId + 1
    /\ IF ~insert_index_ok(index, len)
       THEN Panic("insert", index, nextId)
       ELSE \E g \in reserve(ptr, capacity, heap, len) :
            CASE g.out = "abort" -> Abort("insert", index, nextId)
              [] g.out = "panic" -> Panic("insert", index, nextId)
              [] OTHER ->
                   /\ ptr' = g.ptr
                   /\ capacity' = g.capacity
                   /\ heap' = g.heap
                   /\ grown' = IF g.out = "grown" THEN grown + 1 ELSE grown
                   /\ mem' = insert_mem(grown_mem(mem, g.capacity), len, index, nextId)
                   /\ ub' = (ub \/ ~copy_ok(mem, len, index, len - index))
                   /\ len' = len + 1
                   /\ last' = Call("insert", index, nextId, "unit")
                   /\ UNCHANGED <<start, end, phase, deallocs, drops>>

\* remove_mem shifting one slot too few.
remove_mem_short(m, n, index) == copy(taken(m, index), index + 1, index, n - index - 1)

\* The block after remove's read and copy, lines 67-72 (n is the length already
\* decremented).
remove_mem(m, n, index) == copy(taken(m, index), index + 1, index, n - index)

\* remove's assertion, line 64.
remove_index_ok(index, n) == index < n

\* Vector::remove, lines 62-75.
remove(index) ==
    /\ phase = "vec"
    /\ IF ~remove_index_ok(index, len)
       THEN /\ last' = Call("remove", index, 0, "panic")
            /\ UNCHANGED <<len, mem, drops, ub>>
       ELSE /\ len' = len - 1
            /\ last' = Call("remove", index, read(mem, index), "Some")
            /\ mem' = remove_mem(mem, len - 1, index)
            /\ ub' = (ub \/ ~vec_read_ok(mem, len, index)
                         \/ ~copy_ok(mem, len, index + 1, len - 1 - index))
            /\ drops' = drop_value(drops, read(mem, index))
    /\ UNCHANGED <<ptr, capacity, start, end, phase, heap, deallocs, grown, nextId>>

\* Deref::deref, lines 109-111: the slice of len elements at ptr.
deref ==
    /\ phase = "vec"
    /\ last' = Call("deref", len, 0, "slice")
    /\ ub' = (ub \/ ~copy_ok(mem, len, 0, len))
    /\ UNCHANGED <<ptr, capacity, len, mem, start, end, phase, heap, deallocs, grown,
                   nextId, drops>>

\* drain_len with the length left as it was.
drain_len_kept(n) == n

\* The length drain leaves the container with, line 83.
drain_len(n) == 0

\* Vector::drain, lines 77-89.
drain ==
    /\ phase = "vec"
    /\ LET it == RawValIter_new(ptr, len) IN
        /\ start' = it.start
        /\ end' = it.end
    /\ len' = drain_len(len)
    /\ phase' = "drain"
    /\ last' = Call("drain", len, 0, "unit")
    /\ UNCHANGED <<ptr, capacity, mem, heap, deallocs, grown, nextId, drops, ub>>

\* into_iter letting self go out of scope: its field buf is dropped although a
\* copy of it lives on in the IntoIter.
into_iter_self_dropped(p, cap, h, n) == RawVec_drop(p, cap, h, n)

\* forget(self), line 128: no destructor of self or of its field buf runs.
into_iter_self(p, cap, h, n) == [heap |-> h, deallocs |-> n, bad |-> FALSE]

\* IntoIterator::into_iter, lines 123-132: buf is read out and self forgotten.
into_iter ==
    /\ phase = "vec"
    /\ LET it == RawValIter_new(ptr, len) IN
        /\ start' = it.start
        /\ end' = it.end
    /\ LET f == into_iter_self(ptr, capacity, heap, deallocs) IN
        /\ heap' = f.heap
        /\ deallocs' = f.deallocs
        /\ ub' = (ub \/ f.bad)
    /\ phase' = "iter"
    /\ last' = Call("into_iter", len, 0, "unit")
    /\ UNCHANGED <<ptr, capacity, len, mem, grown, nextId, drops>>

\* A step of the live iterator: Drain::next / IntoIter::next (r is the cursor's answer).
Yield(op, r) ==
    /\ start' = r.start
    /\ end' = r.end
    /\ IF r.some
       THEN LET i == slot_of(ptr, r.at) IN
            /\ last' = Call(op, i, read(mem, i), "Some")
            /\ mem' = taken(mem, i)
            /\ ub' = (ub \/ ~read_ok(mem, i))
            /\ drops' = drop_value(drops, read(mem, i))
       ELSE /\ last' = Call(op, 0, 0, "None")
            /\ UNCHANGED <<mem, ub, drops>>
    /\ UNCHANGED <<ptr, capacity, len, phase, heap, deallocs, grown, nextId>>

\* Drain::next, lines 247-249.
Drain_next == phase = "drain" /\ Yield("next", RawValIter_next(start, end))

\* Drain::next_back, lines 256-258.
Drain_next_back == phase = "drain" /\ Yield("next_back", RawValIter_next_back(start, end))

\* IntoIter::next, lines 217-219.
IntoIter_next == phase = "iter" /\ Yield("next", RawValIter_next(start, end))

\* IntoIter::next_back, lines 226-228.
IntoIter_next_back == phase = "iter" /\ Yield("next_back", RawValIter_next_back(start, end))

\* size_hint of the live iterator: nothing changes but what the caller learns.
Hint(h) ==
    /\ last' = Call("size_hint", h.upper, h.lower, "Some")
    /\ UNCHANGED <<ptr, capacity, len, mem, start, end, phase, heap, deallocs,
                   grown, nextId, drops, ub>>

\* Drain::size_hint, lines 250-252.
Drain_size_hint == phase = "drain" /\ Hint(RawValIter_size_hint(start, end))

\* IntoIter::size_hint, lines 220-222.
IntoIter_size_hint == phase = "iter" /\ Hint(RawValIter_size_hint(start, end))

\* Drain::drop, lines 262-264: the borrow ends and the Vector is usable again.
Drain_drop ==
    /\ phase = "drain"
    /\ LET r == drop_rest(ptr, mem, start, end, drops, ub) IN
        /\ start' = r.start
        /\ end' = r.end
        /\ mem' = r.mem
        /\ drops' = r.drops
        /\ ub' = r.ub
    /\ phase' = "vec"
    /\ last' = Call("Drain_drop", slot_of(ptr, start),
                   drop_rest(ptr, mem, start, end, drops, ub).steps, "unit")
    /\ UNCHANGED <<ptr, capacity, len, heap, deallocs, grown, nextId>>

\* mem::forget of the Drain (lines 80-82): its destructor never runs, the borrow
\* ends, and what it had not yielded stays in the slots, owned by nobody.
Drain_forget ==
    /\ phase = "drain"
    /\ phase' = "vec"
    /\ last' = Call("Drain_forget", slot_of(ptr, start), 0, "unit")
    /\ UNCHANGED <<ptr, capacity, len, mem, start, end, heap, deallocs, grown,
                   nextId, drops, ub>>

\* k reads of the block at p are defined only while it is allocated in h.
block_live(p, h, k) == k = 0 \/ p \in h

\* The destruction of an IntoIter with the storage released before the
\* remaining elements are read out of it.
IntoIter_destroy_free_first(p, cap, m, s, e, d, u, h, n) ==
    LET f == RawVec_drop(p, cap, h, n)
        r == drop_rest(p, m, s, e, d, u)
    IN  [r EXCEPT !.ub = r.ub \/ f.bad \/ ~block_live(p, f.heap, r.steps)]
            @@ [heap |-> f.heap, deallocs |-> f.deallocs]

\* The destruction of an IntoIter: IntoIter::drop (lines 232-234) runs the
\* cursor out over the storage as it is, then the drop glue drops the field
\* _buf (RawVec::drop, lines 197-204).
IntoIter_destroy(p, cap, m, s, e, d, u, h, n) ==
    LET r == drop_rest(p, m, s, e, d, u)
        f == RawVec_drop(p, cap, h, n)
    IN  [r EXCEPT !.ub = r.ub \/ ~block_live(p, h, r.steps) \/ f.bad]
            @@ [heap |-> f.heap, deallocs |-> f.deallocs]

\* An IntoIter goes out of scope.
IntoIter_drop ==
    /\ phase = "iter"
    /\ LET r == IntoIter_destroy(ptr, capacity, mem, start, end, drops, ub,
                                 heap, deallocs)
       IN
        /\ start' = r.start
        /\ end' = r.end
        /\ mem' = r.mem
        /\ drops' = r.drops
        /\ ub' = r.ub
        /\ heap' = r.heap
        /\ deallocs' = r.deallocs
        /\ last' = Call("IntoIter_drop", slot_of(ptr, start), r.steps, "unit")
    /\ phase' = "done"
    /\ UNCHANGED <<ptr, capacity, len, grown, nextId>>

\* A Vector goes out of scope.  Vector has no Drop impl (lines 12-15), so only
\* its drop glue runs: the field buf is dropped (RawVec::drop, which never
\* touches the slots) and len is a plain integer.
Vector_drop ==
    /\ phase = "vec"
    /\ LET f == RawVec_drop(ptr, capacity, heap, deallocs) IN
        /\ heap' = f.heap
        /\ deallocs' = f.deallocs
        /\ ub' = (ub \/ f.bad)
    /\ phase' = "done"
    /\ last' = Call("Vector_drop", len, 0, "unit")
    /\ UNCHANGED <<ptr, capacity, len, mem, start, end, grown, nextId, drops>>

\* Every operation but the leak of a Drain: what is constructed is owned by the
\* container, by an iterator or by the caller until it is dropped.
NextOwned ==
    \/ push
    \/ pop
    \/ \E index \in 0..(len + 1) : insert(index)
    \/ \E index \in 0..len : remove(index)
    \/ deref
    \/ drain
    \/ Drain_next
    \/ Drain_next_back
    \/ Drain_size_hint
    \/ Drain_drop
    \/ into_iter
    \/ IntoIter_next
    \/ IntoIter_next_back
    \/ IntoIter_size_hint
    \/ IntoIter_drop
    \/ Vector_drop

Next == NextOwned \/ Drain_forget

Spec == Init /\ [][Next]_vars

\* The runs in which no Drain is leaked.
SpecOwned == Init /\ [][NextOwned]_vars

----------------------------------------------------------------------------
\* The claims.

\* The container exists: it was neither consumed by into_iter nor destroyed.
VecExists == phase \in {"vec", "drain"}

\* The elements constructed so far.
Made == 1..(nextId - 1)

\* C1: over any sequence of push, pop, insert, remove, iteration (full, or
\* partial and then abandoned) and the final destruction of the container,
\* every element constructed is destroyed exactly once: no destructor runs
\* twice, and once the container or its consuming iterator is destroyed every
\* element constructed has had its destructor run.  (Checked over the runs
\* that leak no Drain, SpecOwned.)
C1_EveryElementDroppedOnce ==
    /\ \A e \in Ids : drops[e] <= 1
    /\ phase = "done" => \A e \in Made : drops[e] = 1

\* C2: when a container of length n > 0 is destroyed, each of the n elements
\* in slots [0, n) has been moved out and dropped by the time its storage is
\* deallocated: after the destruction none of these slots of the freed block
\* still holds its value.  (last.idx is the length at the destruction.)
C2_DestructionDropsElements ==
    last.op = "Vector_drop" =>
        /\ \A i \in 0..(last.idx - 1) : ~read_ok(mem, i)
        /\ \A e \in Made : drops[e] <= 1

\* C3: while the container exists, 0 <= len <= capacity, the slots [0, len)
\* hold len different live elements (constructed, not destroyed), and no
\* operation of the container has read or exposed a slot outside [0, len) or
\* one that holds no value.
C3_LengthInvariant ==
    VecExists =>
        /\ 0 <= len /\ len <= capacity
        /\ DOMAIN mem = 0..(capacity - 1)
        /\ \A i \in 0..(len - 1) :
              read_ok(mem, i) /\ mem[i] \in Made /\ drops[mem[i]] = 0
        /\ \A i, j \in 0..(len - 1) : i # j => mem[i] # mem[j]
        /\ ~ub

C3_Witness ==
    /\ phase = "vec" /\ len = 1 /\ capacity = 4
    /\ last.op = "push" /\ last.prevOp = "Drain_drop"

\* C4: a push never decreases the capacity, and after it the capacity is at
\* least the length.
C4_CapacityMonotonic ==
    [][last'.op = "push" => (capacity' >= capacity /\ capacity' >= len')]_vars

C4_Witness ==
    /\ last.op = "push" /\ last.out = "unit" /\ last.prevOp = "push"
    /\ len = 3 /\ capacity = 4

\* The capacities after 1, 2, ... pushes onto an empty container.
PushCaps == <<1, 2, 4, 4, 8>>

\* Only pushes have happened: the elements made are all there, in order.
OnlyPushes ==
    /\ phase = "vec" /\ nextId = len + 1
    /\ \A i \in 0..(len - 1) : mem[i] = i + 1

\* C5: a push grows the storage exactly when len = capacity; the first
\* growth gives capacity 1 and each later one doubles it, so after the k-th
\* growth the capacity is 2^(k-1); n <= 5 pushes onto an empty container
\* give length n and capacity 1, 2, 4, 4, 8.
C5_GrowthDoubling ==
    /\ [](capacity = IF grown = 0 THEN 0 ELSE 2^(grown - 1))
    /\ []((OnlyPushes /\ len \in 1..Len(PushCaps)) => capacity = PushCaps[len])
    /\ [][(last'.op = "push" /\ last'.out = "unit") =>
            /\ len' = len + 1
            /\ grown' = IF len = capacity THEN grown + 1 ELSE grown
            /\ capacity' = IF len # capacity THEN capacity
                           ELSE IF capacity = 0 THEN 1 ELSE 2 * capacity]_vars

C5_Witness ==
    OnlyPushes /\ len = 5 /\ capacity = 8 /\ grown = 4 /\ last.op = "push"

\* C6: push(x) followed at once by pop() returns x and leaves the length and
\* the elements in [0, len) as they were before the push.  Stated on the two
\* steps: a push appends x and keeps every element in place, and a pop that
\* follows a push returns that x, takes the length back and keeps every
\* remaining element in place.
C6_PushPopRoundTrip ==
    [][/\ (last'.op = "push" /\ last'.out = "unit") =>
            /\ last'.val = nextId
            /\ len' = len + 1
            /\ mem'[len] = last'.val
            /\ \A i \in 0..(len - 1) : mem'[i] = mem[i]
       /\ (last.op = "push" /\ last.out = "unit" /\ last'.op = "pop") =>
            /\ last'.out = "Some"
            /\ last'.val = last.val
            /\ len' = len - 1
            /\ \A i \in 0..(len' - 1) : mem'[i] = mem[i]]_vars

C6_Witness ==
    /\ last.op = "pop" /\ last.prevOp = "push" /\ last.out = "Some"
    /\ last.val = nextId - 1 /\ len = 2

\* Sequence s without its element at 0-based position i.
RemoveAt(s, i) == SubSeq(s, 1, i) \o SubSeq(s, i + 2, Len(s))

\* Sequence s with x put at 0-based position i.
InsertAt(s, i, x) == SubSeq(s, 1, i) \o <<x>> \o SubSeq(s, i + 1, Len(s))

\* C7: for index <= len, insert(index, x) followed by remove(index) returns x
\* and leaves the observable sequence as it was before the insert.  Stated on
\* the two steps: taking position index out of the sequence after the insert
\* gives the sequence before it, and the remove that follows returns x and
\* takes exactly that position out.
C7_InsertRemoveInverse ==
    [][/\ (last'.op = "insert" /\ last'.out = "unit") =>
            /\ last'.idx <= len
            /\ last'.val = nextId
            /\ Elems'[last'.idx + 1] = last'.val
            /\ RemoveAt(Elems', last'.idx) = Elems
       /\ (/\ last.op = "insert" /\ last.out = "unit"
           /\ last'.op = "remove" /\ last'.idx = last.idx) =>
            /\ last'.out = "Some"
            /\ last'.val = last.val
            /\ Elems' = RemoveAt(Elems, last.idx)]_vars

C7_Witness ==
    /\ last.op = "remove" /\ last.prevOp = "insert" /\ last.out = "Some"
    /\ last.val = nextId - 1 /\ last.idx = 1 /\ len = 3

\* C8: insert(index, value) with index <= len grows the storage exactly when
\* len = capacity, and gives old[0..index) ++ [value] ++ old[index..len) with
\* the length one more.
C8_InsertShifts ==
    [][(last'.op = "insert" /\ last'.idx <= len /\ last'.out # "abort") =>
            /\ last'.out = "unit"
            /\ len' = len + 1
            /\ grown' = IF len = capacity THEN grown + 1 ELSE grown
            /\ capacity' >= len'
            /\ Elems' = InsertAt(Elems, last'.idx, last'.val)]_vars

C8_Witness ==
    /\ last.op = "insert" /\ last.out = "unit" /\ last.idx = 1
    /\ len = 4 /\ capacity = 4

\* C9: remove(index) with index < len returns the element that was at index
\* and gives old[0..index) ++ old[index+1..len), the length one less and the
\* capacity unchanged; the element returned is in no slot afterwards.
C9_RemoveShifts ==
    [][(last'.op = "remove" /\ last'.idx < len) =>
            /\ last'.out = "Some"
            /\ last'.val = mem[last'.idx]
            /\ len' = len - 1
            /\ capacity' = capacity
            /\ Elems' = RemoveAt(Elems, last'.idx)
            /\ \A j \in DOMAIN mem' : mem'[j] # last'.val]_vars

C9_Witness ==
    /\ last.op = "remove" /\ last.out = "Some" /\ last.idx = 0 /\ len = 3

\* C10: pop() with len > 0 returns the element at len - 1, takes the length
\* down by one and leaves that slot uninitialized; pop() with len = 0 returns
\* None and changes neither length, capacity nor storage.
C10_Pop ==
    [][last'.op = "pop" =>
            IF len > 0
            THEN /\ last'.out = "Some"
                 /\ last'.val = mem[len - 1]
                 /\ len' = len - 1
                 /\ ~read_ok(mem', len - 1)
                 /\ \A i \in 0..(len - 2) : mem'[i] = mem[i]
                 /\ capacity' = capacity /\ ptr' = ptr /\ heap' = heap
            ELSE /\ last'.out = "None"
                 /\ len' = 0
                 /\ capacity' = capacity /\ ptr' = ptr /\ heap' = heap
                 /\ mem' = mem]_vars

C10_Witness ==
    /\ last.op = "pop" /\ last.out = "None" /\ last.prevOp = "pop"
    /\ len = 0 /\ capacity = 2

\* C11: insert(index, value) with index > len and remove(index) with
\* index >= len panic (the call's assertion fails) instead of clamping or
\* ignoring the index, and leave length, capacity, pointer, allocation and
\* every slot as they were; insert does not grow the storage before failing.
C11_IndexOutOfBounds ==
    [][(\/ last'.op = "insert" /\ last'.idx > len
        \/ last'.op = "remove" /\ last'.idx >= len) =>
            /\ last'.out = "panic"
            /\ len' = len
            /\ capacity' = capacity /\ ptr' = ptr /\ heap' = heap /\ grown' = grown
            /\ mem' = mem
            /\ phase' = phase]_vars

\* An insert past the end of a full container has panicked without growing it.
C11_Witness ==
    /\ last.op = "insert" /\ last.out = "panic" /\ last.idx = 3
    /\ len = 2 /\ capacity = 2

\* C12: drain() sets len to 0 as the iterator is created, before anything is
\* yielded, and leaves capacity, pointer, allocation and slots as they were;
\* len is 0 in every state in which the iterator exists and when it ends,
\* whether it was exhausted, dropped part-way or leaked; no element's
\* destructor ever runs twice.
C12_DrainEmptiesLength ==
    /\ [](phase = "drain" => len = 0)
    /\ [](last.op \in {"Drain_drop", "Drain_forget"} => len = 0)
    /\ [](\A e \in Ids : drops[e] <= 1)
    /\ [][last'.op = "drain" =>
            /\ len' = 0
            /\ capacity' = capacity /\ ptr' = ptr /\ heap' = heap
            /\ mem' = mem /\ drops' = drops]_vars
    /\ [][phase = "drain" =>
            (len' = 0 /\ capacity' = capacity /\ ptr' = ptr /\ heap' = heap)]_vars

\* A Drain was leaked after yielding part of its range: the container is empty
\* and the elements not yielded are still in their slots.
C12_Witness ==
    /\ last.op = "Drain_forget" /\ last.prevOp = "next"
    /\ len = 0 /\ capacity = 4 /\ Live # {}

\* C13: once a drain() is fully consumed, by whatever mix of forward and
\* reverse steps, every element it covered has been yielded exactly once (no
\* slot holds a value, every element made has been destroyed once), len is 0
\* and the capacity is what it was before the drain; the push(x) that follows
\* the end of the Drain succeeds unless the allocator fails (always, when the
\* capacity is not 0), gives length 1 and reads back x at position 0.
C13_DrainExhaustive ==
    /\ []((phase = "drain" /\ start = end) =>
            /\ len = 0
            /\ Live = {}
            /\ \A e \in Made : drops[e] = 1)
    /\ [][(last'.op = "drain" \/ phase = "drain") => capacity' = capacity]_vars
    /\ [][(last.op = "Drain_drop" /\ last'.op = "push") =>
            /\ capacity > 0 => last'.out = "unit"
            /\ last'.out # "abort" =>
                 /\ last'.out = "unit"
                 /\ len' = 1
                 /\ Elems' = <<last'.val>>
                 /\ last'.val = nextId
                 /\ capacity > 0 => capacity' = capacity]_vars

\* Three elements were drained and the Drain dropped; the fourth was pushed
\* into the storage kept.
C13_Witness ==
    /\ last.op = "push" /\ last.prevOp = "Drain_drop" /\ last.out = "unit"
    /\ nextId = 5 /\ len = 1 /\ mem[0] = 4 /\ capacity = 4
    /\ \A e \in 1..3 : drops[e] = 1

\* The elements a live iterator has not yielded: those in the slots of [start, end).
Remaining == {mem[i] : i \in slot_of(ptr, start)..(slot_of(ptr, end) - 1)}

\* C14: the drop of a Drain that has yielded only some of its elements drops
\* each of the remaining ones exactly once and no other; after it every element
\* the Drain covered has been destroyed exactly once, len is 0, and capacity,
\* ptr and the allocation are what they were, still valid.
C14_DrainAbandoned ==
    [][last'.op = "Drain_drop" =>
        /\ \A e \in Ids :
             drops'[e] = drops[e] + (IF e \in Remaining THEN 1 ELSE 0)
        /\ last'.val = Cardinality(Remaining)
        /\ \A e \in Made : drops'[e] = 1
        /\ Live' = {}
        /\ len' = 0
        /\ capacity' = capacity /\ ptr' = ptr /\ heap' = heap
        /\ capacity' # 0 => ptr' \in heap'
        /\ deallocs' = 0
        /\ ~ub']_vars

\* [1, 2, 3] drained, two taken forward, the Drain dropped with one left:
\* three destructor runs in all.
C14_Witness ==
    /\ last.op = "Drain_drop" /\ last.prevOp = "next"
    /\ last.idx = 2 /\ last.val = 1
    /\ nextId = 4 /\ \A e \in 1..3 : drops[e] = 1
    /\ len = 0 /\ capacity = 4

\* C15: a forward step that yields takes the element at start and moves start
\* up by one element, so forward steps yield ascending positions; a reverse
\* step that yields takes the element just below end and moves end down by one
\* element, so reverse steps yield descending positions; what is yielded is a
\* value not yielded before and its slot is left empty, so no element is
\* yielded by both directions; and while the cursor lives the slots of
\* [start, end) hold exactly the elements not yet yielded.
C15_CursorOrder ==
    /\ [][(last'.op = "next" /\ last'.out = "Some") =>
            /\ last'.idx = slot_of(ptr, start)
            /\ start' = start + ElemSize /\ end' = end
            /\ last'.val \in Ids /\ last'.val = mem[last'.idx]
            /\ drops[last'.val] = 0
            /\ mem'[last'.idx] = 0
            /\ ~ub']_vars
    /\ [][(last'.op = "next_back" /\ last'.out = "Some") =>
            /\ last'.idx = slot_of(ptr, end) - 1
            /\ end' = end - ElemSize /\ start' = start
            /\ last'.val \in Ids /\ last'.val = mem[last'.idx]
            /\ drops[last'.val] = 0
            /\ mem'[last'.idx] = 0
            /\ ~ub']_vars
    /\ [](phase \in {"drain", "iter"} =>
            /\ Live = slot_of(ptr, start)..(slot_of(ptr, end) - 1)
            /\ \A i \in Live : drops[mem[i]] = 0
            /\ \A e \in Made \ Remaining : drops[e] = 1)

\* Of three elements the first was taken forward, then the third in reverse;
\* the one in the middle is all that [start, end) still covers.
C15_Witness ==
    /\ phase = "iter"
    /\ last.op = "next_back" /\ last.prevOp = "next" /\ last.out = "Some"
    /\ last.idx = 2
    /\ slot_of(ptr, start) = 1 /\ slot_of(ptr, end) = 2
    /\ mem[1] \in Ids /\ drops[mem[1]] = 0

\* C16: into_iter hands the storage to the IntoIter untouched and the
\* container's destructor never runs afterwards (nothing is deallocated while
\* the IntoIter lives); the destruction of the IntoIter drops each element still
\* in [start, end) exactly once and no other, reading them while the storage
\* is still allocated, and then releases the storage, once, if capacity is
\* not 0.
C16_IntoIterOwnership ==
    /\ [][last'.op = "into_iter" =>
            /\ phase' = "iter"
            /\ ptr' = ptr /\ capacity' = capacity /\ heap' = heap
            /\ deallocs' = deallocs /\ mem' = mem /\ drops' = drops]_vars
    /\ [][phase = "iter" => last'.op # "Vector_drop"]_vars
    /\ [](phase = "iter" =>
            /\ deallocs = 0
            /\ capacity # 0 => ptr \in heap)
    /\ [][last'.op = "IntoIter_drop" =>
            /\ phase = "iter"
            /\ \A e \in Ids :
                 drops'[e] = drops[e] + (IF e \in Remaining THEN 1 ELSE 0)
            /\ \A e \in Remaining : e \in Ids /\ drops'[e] = 1
            /\ last'.val = Cardinality(Remaining)
            /\ \A i \in slot_of(ptr, start)..(slot_of(ptr, end) - 1) : mem'[i] = 0
            /\ deallocs' = IF capacity = 0 THEN 0 ELSE 1
            /\ heap' = {}
            /\ ~ub']_vars

\* An IntoIter over three elements was dropped after yielding one: its
\* destructor dropped the other two and the storage was released once.
C16_Witness ==
    /\ last.op = "IntoIter_drop" /\ last.idx = 1 /\ last.val = 2
    /\ phase = "done" /\ deallocs = 1 /\ heap = {} /\ capacity = 4
    /\ ~ub

\* C17: size_hint of a Drain or an IntoIter is exact.  The iterator is created
\* over the n elements of the container, which are then the values in the
\* slots; every step that yields takes one of them out and a step that yields
\* nothing takes none, so the values in the slots number n - f - b; size_hint
\* reports that number as lower and as upper bound, and 0 once start = end.
C17_SizeHintExact ==
    /\ [][last'.op \in {"drain", "into_iter"} =>
            Cardinality(Live') = last'.idx /\ last'.idx = len]_vars
    /\ [][(last'.op \in {"next", "next_back"}) =>
            Cardinality(Live') =
                Cardinality(Live) - (IF last'.out = "Some" THEN 1 ELSE 0)]_vars
    /\ [][last'.op = "size_hint" =>
            /\ phase \in {"drain", "iter"}
            /\ last'.val = Cardinality(Live)
            /\ last'.idx = Cardinality(Live)
            /\ start = end => last'.val = 0
            /\ Live' = Live]_vars

\* Of four elements one was taken forward and one in reverse, and the
\* IntoIter reports (2, Some(2)).
C17_Witness ==
    /\ phase = "iter" /\ last.op = "size_hint" /\ last.prevOp = "next_back"
    /\ last.val = 2 /\ last.idx = 2
    /\ slot_of(ptr, start) = 1 /\ slot_of(ptr, end) = 3 /\ capacity = 4
    /\ mem[0] = 0 /\ mem[3] = 0

\* C18: grow updates ptr and capacity together.  A step changes ptr or capacity
\* only by one successful grow, after which capacity is the new capacity and
\* ptr is the one block allocated; a call that ends in the allocator's failure
\* leaves ptr, capacity, the allocation and its contents as they were; in every
\* state the capacity is that of the block ptr names (none, and ptr dangling,
\* when it is 0).  Where the byte size would pass isize::MAX, grow fails with
\* ptr and capacity as they were, and just below it does not.
C18_GrowAtomic ==
    /\ [][grown' = grown => (ptr' = ptr /\ capacity' = capacity)]_vars
    /\ [][grown' # grown =>
            /\ grown' = grown + 1
            /\ last'.op \in {"push", "insert"} /\ last'.out = "unit"
            /\ capacity' = new_cap(capacity)
            /\ heap' = {ptr'}
            /\ DOMAIN mem' = 0..(capacity' - 1)]_vars
    /\ [][last'.out = "abort" =>
            /\ len = capacity
            /\ ptr' = ptr /\ capacity' = capacity /\ heap' = heap
            /\ mem' = mem /\ len' = len]_vars
    /\ [](/\ capacity = 0 <=> ptr = Dangling
          /\ DOMAIN mem = 0..(capacity - 1)
          /\ phase # "done" => heap = (IF capacity = 0 THEN {} ELSE {ptr}))
    /\ [](LET limit == ISIZE_MAX \div ElemSize
              p == CHOOSE a \in HeapAddrs : TRUE
          IN  /\ \A cap \in {(limit + 1) \div 2, limit} :
                   \A g \in grow(p, cap, {p}) :
                       g.out = "panic" /\ g.ptr = p /\ g.capacity = cap /\ g.heap = {p}
              /\ \A g \in grow(p, limit \div 2, {p}) :
                   \/ g.out = "abort" /\ g.ptr = p /\ g.capacity = limit \div 2
                   \/ g.out = "grown" /\ g.capacity = 2 * (limit \div 2)
                                      /\ g.heap = {g.ptr})

\* The container was full at capacity 2, realloc returned null, and the call
\* ended the process with the block of capacity 2 still the one ptr names.
C18_Witness ==
    /\ phase = "abort" /\ last.op = "push" /\ last.out = "abort"
    /\ len = 2 /\ capacity = 2 /\ heap = {ptr} /\ grown = 2

\* C19: start <= end in every state, a whole number of elements apart; with
\* start = end a forward or reverse step returns None, yields nothing and
\* leaves start and end (and every slot) as they were; and the loop of
\* Drain::drop or IntoIter::drop ends, with start = end, after yielding exactly
\* the elements that were between start and end.
C19_CursorExhaustion ==
    /\ [](start <= end /\ (end - start) % ElemSize = 0)
    /\ [][(start = end /\ last'.op \in {"next", "next_back"}) =>
            /\ last'.out = "None"
            /\ start' = start /\ end' = end
            /\ mem' = mem /\ drops' = drops /\ ub' = ub]_vars
    /\ [][(start # end /\ last'.op \in {"next", "next_back"}) =>
            last'.out = "Some"]_vars
    /\ [][last'.op \in {"Drain_drop", "IntoIter_drop"} =>
            /\ last'.val = (end - start) \div ElemSize
            /\ last'.val = Cardinality(Remaining)
            /\ start' = end' /\ end' = end]_vars

\* A Drain had yielded all it covered, the last of it forward; the reverse
\* step that followed returned None.
C19_Witness ==
    /\ phase = "drain" /\ start = end /\ slot_of(ptr, start) = 2
    /\ last.op = "next_back" /\ last.out = "None" /\ last.prevOp = "next"
    /\ mem[0] = 0 /\ mem[1] = 0

\* C20: the allocation has one owner and is released once.  Until the owner
\* (the Vector, or the IntoIter it was converted into) is destroyed nothing has
\* been deallocated and the heap holds exactly the block ptr names, if capacity
\* is not 0; after the destruction the block has been deallocated exactly once
\* if capacity is not 0 and never if it is 0; the only steps that deallocate
\* are the destruction of the Vector and that of the IntoIter, each of a block
\* that is allocated, and never both in one life; no step of a Drain, its
\* creation and its end included, deallocates.
C20_SingleDealloc ==
    /\ [](deallocs <= 1 /\ Cardinality(heap) <= 1)
    /\ [](phase # "done" =>
            /\ deallocs = 0
            /\ heap = (IF capacity = 0 THEN {} ELSE {ptr}))
    /\ [](phase = "done" =>
            /\ deallocs = (IF capacity = 0 THEN 0 ELSE 1)
            /\ heap = {}
            /\ last.op \in {"Vector_drop", "IntoIter_drop"})
    /\ [][deallocs' # deallocs =>
            /\ last'.op = (IF phase = "iter" THEN "IntoIter_drop" ELSE "Vector_drop")
            /\ phase \in {"vec", "iter"} /\ phase' = "done"
            /\ capacity # 0 /\ heap = {ptr} /\ heap' = {}
            /\ deallocs' = 1]_vars
    /\ [][(phase = "drain" \/ phase' = "drain") =>
            (deallocs' = deallocs /\ heap' = heap /\ ptr' = ptr)]_vars
    /\ [][phase = "done" => FALSE]_vars

\* Two elements were pushed, the Vector converted, and the IntoIter dropped at
\* once: the block of capacity 2 was deallocated once, by the IntoIter.
C20_Witness ==
    /\ phase = "done" /\ last.op = "IntoIter_drop" /\ last.prevOp = "into_iter"
    /\ last.val = 2 /\ capacity = 2
    /\ deallocs = 1 /\ heap = {}

====
